---- MODULE Spec2Model ----
(***************************************************************************)
(* A model of package rpk (fluhus/rpk): the function registry built by     *)
(* newFuncs from the methods of a receiver, the dispatcher funcs.call and  *)
(* the HTTP handler returned by NewHandlerFunc.                            *)
(*                                                                         *)
(* Go values are pairs <<type, value>>; JSON texts are sequences of        *)
(* tokens <<kind, text>>; method names and messages are strings.           *)
(***************************************************************************)
EXTENDS Integers, Sequences, FiniteSets, TLC

(***************************************************************************)
(* Bounds of the model.                                                    *)
(***************************************************************************)
\* Largest number of methods of a receiver.
MaxMethods == 3
\* Number of goroutines serving requests at the same time (SpecConc).
MaxGoroutines == 2

(***************************************************************************)
(* Method names.  FirstRune gives the code point of the first character of *)
(* each name the model uses; FirstByte is the first byte of its UTF-8      *)
(* encoding, which is what name[:1] slices.                                *)
(***************************************************************************)
FirstRune ==
    [n \in {"Bar", "BarErr", "Baz", "Both", "Foo", "FooErr", "Fun", "Get", "NaN",
            "Pair", "Ping", "Quit", "Set", "Swap", "Trio", "Nope"} |->
        CASE n \in {"Bar", "BarErr", "Baz", "Both"} -> 66
          [] n \in {"Foo", "FooErr", "Fun"} -> 70
          [] n = "Get" -> 71
          [] n \in {"NaN", "Nope"} -> 78
          [] n \in {"Pair", "Ping"} -> 80
          [] n = "Quit" -> 81
          [] n \in {"Set", "Swap"} -> 83
          [] n = "Trio" -> 84]
    @@ [n \in {"funcs", "helper"} |-> IF n = "funcs" THEN 102 ELSE 104]
    @@ [n \in {"Étude"} |-> 201]
    @@ [n \in {"étape"} |-> 233]

\* The first byte of the UTF-8 encoding of a name (runes below U+0800).
FirstByte(name) ==
    LET r == FirstRune[name]
    IN  IF r < 128 THEN r ELSE 192 + (r \div 64)

\* Go's rule for an exported identifier: the first character is an upper
\* case letter (here: ASCII and Latin-1 upper case).
IsExported(name) ==
    LET r == FirstRune[name]
    IN  \/ r \in 65..90
        \/ r \in (192..222) \ {215}

\* strings.ToLower of a one-byte string, as a sequence of bytes: an ASCII
\* upper case letter is lowered, other ASCII is kept, and a byte that is not
\* valid UTF-8 on its own is replaced by U+FFFD (EF BF BD).
ToLower(b) ==
    IF b \in 65..90 THEN <<b + 32>>
    ELSE IF b < 128 THEN <<b>>
    ELSE <<239, 191, 189>>

(***************************************************************************)
(* Methods.  A method has a name, the types of its inputs and outputs and  *)
(* a body (Invoke below).                                                  *)
(***************************************************************************)
Method(name, in, out) == [name |-> name, in |-> in, out |-> out]

\* The methods receivers are made of, in lexicographic (byte) order of name:
\* the methods of testType, and methods of the other shapes the package
\* documentation allows (one output, no output, a name that is not ASCII) or
\* forbids (two inputs, three outputs, an error that does not come second),
\* exported and not.
Catalog ==
    << Method("Bar",    <<"int">>,        <<"string", "error">>),
       Method("BarErr", <<"int">>,        <<"string", "error">>),
       Method("Baz",    <<"[]string">>,   <<"string", "error">>),
       Method("Both",   <<>>,             <<"string", "error">>),
       Method("Foo",    <<>>,             <<"string", "error">>),
       Method("FooErr", <<>>,             <<"string", "error">>),
       Method("Fun",    <<"*thing">>,     <<"string", "error">>),
       Method("Get",    <<>>,             <<"int">>),
       Method("NaN",    <<>>,             <<"float64", "error">>),
       Method("Pair",   <<"int", "int">>, <<"string", "error">>),
       Method("Ping",   <<>>,             <<"error">>),
       Method("Quit",   <<>>,             <<"error">>),
       Method("Set",    <<"int">>,        <<>>),
       Method("Swap",   <<>>,             <<"error", "string">>),
       Method("Trio",   <<>>,             <<"string", "int", "error">>),
       Method("helper", <<"int", "int">>, <<"int", "int", "int">>),
       Method("Étude",  <<>>,             <<"string", "error">>),
       Method("étape",  <<"int", "int">>, <<"error", "int">>) >>

\* The subsets of S with at most k elements.
RECURSIVE SubsetsUpTo(_, _)
SubsetsUpTo(S, k) ==
    IF k = 0 THEN {{}}
    ELSE LET smaller == SubsetsUpTo(S, k - 1)
         IN  smaller \cup {p \cup {x} : p \in smaller, x \in S}

\* A receiver is the set of catalog positions of its methods.
Receivers == SubsetsUpTo(1..Len(Catalog), MaxMethods)

\* The subsequence of s at the positions in idx, in increasing order.
RECURSIVE Pick(_, _, _)
Pick(s, idx, i) ==
    IF i > Len(s) THEN <<>>
    ELSE IF i \in idx THEN <<s[i]>> \o Pick(s, idx, i + 1)
    ELSE Pick(s, idx, i + 1)

\* reflect's method table of a receiver: value.Method(i) for i < NumMethod().
\* reflect lists the exported methods only, sorted by name.
MethodTable(r) ==
    LET exported == {i \in r : IsExported(Catalog[i].name)}
    IN  Pick(Catalog, exported, 1)

(***************************************************************************)
(* newFuncs and its checks.                                                *)
(***************************************************************************)
NoErr == ""

\* func isError(t reflect.Type) bool
isError(t) == t = "error"

\* func checkInputs(f reflect.Type) error
checkInputs(m) ==
    IF Len(m.in) > 1
    THEN "Must have 0 or 1 inputs. It has " \o ToString(Len(m.in)) \o ". "
         \o m.in[1] \o " " \o m.in[2]
    ELSE NoErr

\* checkOutputs as the first version of newFuncs had it: exactly 2 outputs.
checkOutputsTwoOnly(m) ==
    IF Len(m.out) # 2
    THEN "Function does not have 2 outputs. It has " \o ToString(Len(m.out))
    ELSE IF ~isError(m.out[2])
    THEN "Second output should be an error, but found " \o m.out[2] \o "."
    ELSE NoErr

\* func checkOutputs(f reflect.Type) error
checkOutputs(m) ==
    IF Len(m.out) > 2
    THEN "More than 2 outputs: " \o ToString(Len(m.out))
    ELSE IF Len(m.out) = 2 /\ ~isError(m.out[2])
    THEN "Second output should be an error, but found " \o m.out[2] \o "."
    ELSE NoErr

\* The nil map and the registry under construction.
NilFuncs == [isNil |-> TRUE, m |-> <<>>]
MakeFuncs(entries) == [isNil |-> FALSE, m |-> entries]

\* "Check if exported": name[:1] == strings.ToLower(name[:1]) means skip.
skipUnexported(name) == <<FirstByte(name)>> = ToLower(FirstByte(name))

\* newFuncs returning the map filled so far beside the error.
RECURSIVE newFuncsLoopPartial(_, _, _)
newFuncsLoopPartial(table, i, result) ==
    IF i > Len(table) THEN [funcs |-> MakeFuncs(result), err |-> NoErr]
    ELSE LET m == table[i]
         IN  IF skipUnexported(m.name)
             THEN newFuncsLoopPartial(table, i + 1, result)
             ELSE IF checkInputs(m) # NoErr
             THEN [funcs |-> MakeFuncs(result),
                   err |-> "Function '" \o m.name \o "': " \o checkInputs(m)]
             ELSE IF checkOutputs(m) # NoErr
             THEN [funcs |-> MakeFuncs(result),
                   err |-> "Function '" \o m.name \o "': " \o checkOutputs(m)]
             ELSE newFuncsLoopPartial(table, i + 1, (m.name :> m) @@ result)

\* The loop of newFuncs over the method table, from method i on.
RECURSIVE newFuncsLoop(_, _, _)
newFuncsLoop(table, i, result) ==
    IF i > Len(table) THEN [funcs |-> MakeFuncs(result), err |-> NoErr]
    ELSE LET m == table[i]
         IN  IF skipUnexported(m.name) THEN newFuncsLoop(table, i + 1, result)
             ELSE IF checkInputs(m) # NoErr
             THEN [funcs |-> NilFuncs,
                   err |-> "Function '" \o m.name \o "': " \o checkInputs(m)]
             ELSE IF checkOutputs(m) # NoErr
             THEN [funcs |-> NilFuncs,
                   err |-> "Function '" \o m.name \o "': " \o checkOutputs(m)]
             ELSE newFuncsLoop(table, i + 1, (m.name :> m) @@ result)

\* func newFuncs(a interface{}) (funcs, error)
newFuncs(r) == newFuncsLoop(MethodTable(r), 1, <<>>)

(***************************************************************************)
(* JSON texts.  A text is a sequence of tokens; insignificant white space  *)
(* is a token of its own, so that a text of white space only is not the    *)
(* empty string.                                                           *)
(***************************************************************************)
LBrace == <<"p", "{">>
RBrace == <<"p", "}">>
LBrack == <<"p", "[">>
RBrack == <<"p", "]">>
Comma  == <<"p", ",">>
Colon  == <<"p", ":">>
Space  == <<"ws", " ">>
Null   == <<"lit", "null">>
Num(n) == <<"num", n>>
Str(s) == <<"str", s>>

IsTok(tok, kind, text) == tok[1] = kind /\ tok[2] = text

\* JSON values, as the decoder sees them.
JNull   == <<"null", 0>>
JNum(n) == <<"num", n>>
JFrac(s) == <<"frac", s>>
JStr(s) == <<"str", s>>
JBool(b) == <<"bool", b>>
JArr(elems) == <<"arr", elems>>
JObj(members) == <<"obj", members>>

SyntaxEOF == "unexpected end of JSON input"
SyntaxBad == "invalid character"

ParseFail(msg) == [err |-> msg, v |-> JNull]
ParseOk(v) == [err |-> NoErr, v |-> v]

\* The value a scalar token stands for.
ScalarOf(tok) ==
    CASE tok[1] = "num"  -> JNum(tok[2])
      [] tok[1] = "frac" -> JFrac(tok[2])
      [] tok[1] = "str"  -> JStr(tok[2])
      [] tok[2] = "null" -> JNull
      [] OTHER -> JBool(tok[2] = "true")

\* The scanner's stack holds one frame for each array or object that is
\* open: its kind, the key read last and the items read so far.
Frame(kind) == [kind |-> kind, key |-> "", items |-> <<>>]

\* The state of the scan once the value v is complete: v is the result when
\* nothing is open, and else the next item of the innermost open frame.
Complete(stack, v) ==
    IF stack = <<>> THEN [stack |-> <<>>, mode |-> "end", v |-> v]
    ELSE [stack |-> [stack EXCEPT ![Len(stack)].items =
                        Append(@, IF stack[Len(stack)].kind = "obj"
                                  THEN <<stack[Len(stack)].key, v>>
                                  ELSE v)],
          mode |-> "after", v |-> JNull]

\* The state of the scan once the innermost open frame is closed.
Close(stack) ==
    Complete(SubSeq(stack, 1, Len(stack) - 1),
             <<stack[Len(stack)].kind, stack[Len(stack)].items>>)

Scanning(stack, mode) == [stack |-> stack, mode |-> mode, v |-> JNull]
Stuck == [stack |-> <<>>, mode |-> "bad", v |-> JNull]

\* One step of the scanner of encoding/json: the state after the token tok,
\* read in the given mode.
ScanStep(stack, mode, tok) ==
    CASE mode \in {"value", "valueOrClose"} ->
            IF tok[1] \in {"num", "frac", "str", "lit"}
            THEN Complete(stack, ScalarOf(tok))
            ELSE IF IsTok(tok, "p", "[")
            THEN Scanning(Append(stack, Frame("arr")), "valueOrClose")
            ELSE IF IsTok(tok, "p", "{")
            THEN Scanning(Append(stack, Frame("obj")), "keyOrClose")
            ELSE IF mode = "valueOrClose" /\ IsTok(tok, "p", "]")
            THEN Close(stack)
            ELSE Stuck
      [] mode \in {"key", "keyOrClose"} ->
            IF tok[1] = "str"
            THEN Scanning([stack EXCEPT ![Len(stack)].key = tok[2]], "colon")
            ELSE IF mode = "keyOrClose" /\ IsTok(tok, "p", "}")
            THEN Close(stack)
            ELSE Stuck
      [] mode = "colon" ->
            IF IsTok(tok, "p", ":") THEN Scanning(stack, "value") ELSE Stuck
      [] mode = "after" ->
            IF IsTok(tok, "p", ",")
            THEN Scanning(stack, IF stack[Len(stack)].kind = "obj"
                                 THEN "key" ELSE "value")
            ELSE IF stack[Len(stack)].kind = "arr" /\ IsTok(tok, "p", "]")
            THEN Close(stack)
            ELSE IF stack[Len(stack)].kind = "obj" /\ IsTok(tok, "p", "}")
            THEN Close(stack)
            ELSE Stuck
      [] OTHER -> Stuck

\* The scan of the tokens of t from position i on.
RECURSIVE Scan(_, _, _)
Scan(t, i, state) ==
    IF state.mode = "bad" THEN ParseFail(SyntaxBad)
    ELSE IF i > Len(t)
    THEN IF state.mode = "end" THEN ParseOk(state.v) ELSE ParseFail(SyntaxEOF)
    ELSE Scan(t, i + 1, ScanStep(state.stack, state.mode, t[i]))

\* A text without its white space tokens.
RECURSIVE StripSpace(_)
StripSpace(t) ==
    IF t = <<>> THEN <<>>
    ELSE IF t[1][1] = "ws" THEN StripSpace(Tail(t))
    ELSE <<t[1]>> \o StripSpace(Tail(t))

\* checkValid and the scan of the whole text: one value, and nothing but
\* white space around it.
ParseJSON(text) == Scan(StripSpace(text), 1, Scanning(<<>>, "value"))

(***************************************************************************)
(* Go values of the types the catalog uses.                                *)
(***************************************************************************)
GoInt(n)    == <<"int", n>>
GoString(s) == <<"string", s>>
GoSlice(isNil, elems) == <<"[]string", [nil |-> isNil, elems |-> elems]>>
GoThing(isNil, i, s)  == <<"*thing", [nil |-> isNil, I |-> i, S |-> s]>>
GoError(isNil, msg)   == <<"error", [nil |-> isNil, msg |-> msg]>>
GoNaN == <<"float64", "NaN">>

NilError == GoError(TRUE, "")
Errorf(msg) == GoError(FALSE, msg)

\* reflect.New(inType): the zero value the decoder starts from.
Zero(typ) ==
    CASE typ = "int"      -> GoInt(0)
      [] typ = "string"   -> GoString("")
      [] typ = "[]string" -> GoSlice(TRUE, <<>>)
      [] typ = "*thing"   -> GoThing(TRUE, 0, "")
      [] typ = "error"    -> NilError
      [] OTHER            -> GoInt(0)

JKindName(jv) ==
    CASE jv[1] \in {"num", "frac"} -> "number"
      [] jv[1] = "str"  -> "string"
      [] jv[1] = "bool" -> "bool"
      [] jv[1] = "arr"  -> "array"
      [] jv[1] = "obj"  -> "object"
      [] OTHER -> "null"

TypeError(jv, typ) ==
    "json: cannot unmarshal " \o JKindName(jv) \o " into Go value of type " \o typ

DecOk(v) == [err |-> NoErr, val |-> v]
DecErr(msg, v) == [err |-> msg, val |-> v]

\* The first error a decoder keeps (d.saveError).
FirstErr(e1, e2) == IF e1 # NoErr THEN e1 ELSE e2

\* Decoding a JSON value into an int or a string that holds cur.
DecodeScalar(jv, typ, cur) ==
    IF jv[1] = "null" THEN DecOk(cur)
    ELSE IF typ = "int"
    THEN IF jv[1] = "num" THEN DecOk(GoInt(jv[2]))
         ELSE DecErr(TypeError(jv, typ), cur)
    ELSE IF jv[1] = "str" THEN DecOk(GoString(jv[2]))
         ELSE DecErr(TypeError(jv, typ), cur)

\* Decoding the elements of a JSON array into a []string: a mismatching
\* element leaves "" and is remembered as the error.
RECURSIVE DecodeElems(_, _, _, _)
DecodeElems(elems, i, acc, err) ==
    IF i > Len(elems) THEN DecErr(err, GoSlice(FALSE, acc))
    ELSE LET d == DecodeScalar(elems[i], "string", GoString(""))
         IN  DecodeElems(elems, i + 1, Append(acc, d.val[2]),
                         FirstErr(err, d.err))

\* The field of thing a key names: an exact match, else a match under
\* case folding ("i" names I).
FieldOf(key) ==
    CASE key \in {"I", "i"} -> "I"
      [] key \in {"S", "s"} -> "S"
      [] OTHER -> ""

\* Decoding the members of a JSON object into a thing, in order.
RECURSIVE DecodeMembers(_, _, _, _)
DecodeMembers(members, i, th, err) ==
    IF i > Len(members) THEN DecErr(err, <<"*thing", th>>)
    ELSE LET key == members[i][1]
             jv  == members[i][2]
         IN  CASE FieldOf(key) = "I" ->
                    LET d == DecodeScalar(jv, "int", GoInt(th.I))
                    IN  DecodeMembers(members, i + 1, [th EXCEPT !.I = d.val[2]],
                                      FirstErr(err, d.err))
               [] FieldOf(key) = "S" ->
                    LET d == DecodeScalar(jv, "string", GoString(th.S))
                    IN  DecodeMembers(members, i + 1, [th EXCEPT !.S = d.val[2]],
                                      FirstErr(err, d.err))
               [] OTHER -> DecodeMembers(members, i + 1, th, err)

\* Decoding a JSON value into a fresh value of an argument type.
DecodeValue(jv, typ) ==
    IF jv[1] = "null" THEN DecOk(Zero(typ))
    ELSE CASE typ \in {"int", "string"} -> DecodeScalar(jv, typ, Zero(typ))
           [] typ = "[]string" ->
                IF jv[1] = "arr" THEN DecodeElems(jv[2], 1, <<>>, NoErr)
                ELSE DecErr(TypeError(jv, typ), Zero(typ))
           [] typ = "*thing" ->
                IF jv[1] = "obj"
                THEN DecodeMembers(jv[2], 1, [nil |-> FALSE, I |-> 0, S |-> ""],
                                   NoErr)
                ELSE DecErr(TypeError(jv, typ), Zero(typ))
           [] OTHER -> DecErr(TypeError(jv, typ), Zero(typ))

\* Unmarshal taking the empty text for null.
UnmarshalEmptyAsNull(text, typ) ==
    LET r == ParseJSON(text)
    IN  IF StripSpace(text) = <<>> THEN DecOk(Zero(typ))
        ELSE IF r.err # NoErr THEN DecErr(r.err, Zero(typ))
        ELSE DecodeValue(r.v, typ)

\* json.Unmarshal(data, in.Interface()) with in = reflect.New(typ): the
\* error, and the value in.Elem() holds afterwards.
Unmarshal(text, typ) ==
    LET r == ParseJSON(text)
    IN  IF r.err # NoErr THEN DecErr(r.err, Zero(typ))
        ELSE DecodeValue(r.v, typ)

\* The elements of a JSON array of strings.
RECURSIVE EncodeElems(_, _)
EncodeElems(elems, i) ==
    IF i > Len(elems) THEN <<>>
    ELSE (IF i > 1 THEN <<Comma>> ELSE <<>>) \o <<Str(elems[i])>>
         \o EncodeElems(elems, i + 1)

\* json.Marshal of a Go value: the error and the text.
Marshal(v) ==
    CASE v[1] = "int"    -> [err |-> NoErr, text |-> <<Num(v[2])>>]
      [] v[1] = "string" -> [err |-> NoErr, text |-> <<Str(v[2])>>]
      [] v[1] = "[]string" ->
            IF v[2].nil THEN [err |-> NoErr, text |-> <<Null>>]
            ELSE [err |-> NoErr,
                  text |-> <<LBrack>> \o EncodeElems(v[2].elems, 1) \o <<RBrack>>]
      [] v[1] = "*thing" ->
            IF v[2].nil THEN [err |-> NoErr, text |-> <<Null>>]
            ELSE [err |-> NoErr,
                  text |-> <<LBrace, Str("I"), Colon, Num(v[2].I), Comma,
                             Str("S"), Colon, Str(v[2].S), RBrace>>]
      [] v[1] = "error" ->
            IF v[2].nil THEN [err |-> NoErr, text |-> <<Null>>]
            ELSE [err |-> NoErr, text |-> <<LBrace, RBrace>>]
      [] OTHER -> [err |-> "json: unsupported value: NaN", text |-> <<>>]

(***************************************************************************)
(* The methods of the receivers.  store is the one field of the receiver   *)
(* that methods read and write (Get, Set).                                 *)
(***************************************************************************)
Returns(out, store) == [panic |-> FALSE, out |-> out, store |-> store]
Panics(store) == [panic |-> TRUE, out |-> <<>>, store |-> store]

\* f.Call(args): what the method bound to the receiver does.  Bar to Fun are
\* the bodies of testType's methods; a method that is never registered
\* returns zero values.
Invoke(m, args, store) ==
    CASE m.name = "Bar" ->
            Returns(<<GoString("Bar " \o ToString(args[1][2])), NilError>>, store)
      [] m.name = "BarErr" ->
            Returns(<<GoString(""),
                      Errorf("Bar error " \o ToString(args[1][2]))>>, store)
      [] m.name = "Baz" ->
            \* a[0] of a slice without elements is a run-time panic
            IF Len(args[1][2].elems) = 0 THEN Panics(store)
            ELSE Returns(<<GoString("Baz " \o args[1][2].elems[1]), NilError>>,
                         store)
      [] m.name = "Both" ->
            Returns(<<GoString("partial"), Errorf("Both error")>>, store)
      [] m.name = "Foo" -> Returns(<<GoString("Foo!"), NilError>>, store)
      [] m.name = "FooErr" -> Returns(<<GoString(""), Errorf("Foo error")>>, store)
      [] m.name = "Fun" ->
            \* th.I of a nil *thing is a run-time panic
            IF args[1][2].nil THEN Panics(store)
            ELSE Returns(<<GoString("Fun " \o ToString(args[1][2].I) \o " "
                                    \o args[1][2].S), NilError>>, store)
      [] m.name = "Get" -> Returns(<<GoInt(store)>>, store)
      [] m.name = "NaN" -> Returns(<<GoNaN, NilError>>, store)
      [] m.name = "Ping" -> Returns(<<NilError>>, store)
      [] m.name = "Quit" -> Returns(<<Errorf("Quit error")>>, store)
      [] m.name = "Set" -> Returns(<<>>, args[1][2])
      [] m.name = "Étude" -> Returns(<<GoString("Étude!"), NilError>>, store)
      [] OTHER -> Returns([i \in 1..Len(m.out) |-> Zero(m.out[i])], store)

(***************************************************************************)
(* funcs.call                                                              *)
(***************************************************************************)
\* jsonError marshalling the message itself instead of a map with it.
jsonErrorBare(msg) == <<Str(msg)>>

\* func jsonError(s string, a ...interface{}) string, msg being the
\* formatted message.
jsonError(msg) == <<LBrace, Str("error"), Colon, Str(msg), RBrace>>

\* f, ok := fs[funcName]
Lookup(fs, funcName) == funcName \in DOMAIN fs.m

\* Prepare without the test of param for a method without inputs.
PrepareLenient(m, funcName, param) ==
    IF Len(m.in) = 1
    THEN LET d == Unmarshal(param, m.in[1])
         IN  IF d.err # NoErr
             THEN [ok |-> FALSE, args |-> <<>>,
                   resp |-> jsonError("Error decoding JSON: " \o d.err)]
             ELSE [ok |-> TRUE, args |-> <<d.val>>, resp |-> <<>>]
    ELSE [ok |-> TRUE, args |-> <<>>, resp |-> <<>>]

\* Prepare dropping the error of json.Unmarshal.
PrepareIgnoreErr(m, funcName, param) ==
    IF Len(m.in) = 1
    THEN [ok |-> TRUE, args |-> <<Unmarshal(param, m.in[1]).val>>, resp |-> <<>>]
    ELSE IF param # <<>>
    THEN [ok |-> FALSE, args |-> <<>>,
          resp |-> jsonError("Function '" \o funcName
                             \o "' does not accept parameters.")]
    ELSE [ok |-> TRUE, args |-> <<>>, resp |-> <<>>]

\* The argument list of the call, or the error payload that ends the call
\* before it: the method's one input is decoded from param, and a method
\* without inputs accepts the empty param only.
Prepare(m, funcName, param) ==
    IF Len(m.in) = 1
    THEN LET d == Unmarshal(param, m.in[1])
         IN  IF d.err # NoErr
             THEN [ok |-> FALSE, args |-> <<>>,
                   resp |-> jsonError("Error decoding JSON: " \o d.err)]
             ELSE [ok |-> TRUE, args |-> <<d.val>>, resp |-> <<>>]
    ELSE IF param # <<>>
    THEN [ok |-> FALSE, args |-> <<>>,
          resp |-> jsonError("Function '" \o funcName
                             \o "' does not accept parameters.")]
    ELSE [ok |-> TRUE, args |-> <<>>, resp |-> <<>>]

\* Respond taking a single output for the value, whatever its type.
RespondByPosition(out) ==
    LET n == Len(out)
    IN  IF n = 2 /\ ~out[2][2].nil THEN jsonError(out[2][2].msg)
        ELSE IF n >= 1
        THEN LET r == Marshal(out[1])
             IN  IF r.err # NoErr
                 THEN jsonError("Error encoding result: " \o r.err)
                 ELSE r.text
        ELSE <<>>

\* Respond looking at the value before the error.
RespondValueFirst(out) ==
    LET n == Len(out)
        errValid == n = 2 \/ (n = 1 /\ isError(out[1][1]))
        valValid == n = 2 \/ (n = 1 /\ ~isError(out[1][1]))
        outErr == IF n = 2 THEN out[2] ELSE out[1]
    IN  IF valValid /\ Marshal(out[1]).err = NoErr THEN Marshal(out[1]).text
        ELSE IF errValid /\ ~outErr[2].nil THEN jsonError(outErr[2].msg)
        ELSE <<>>

\* "Sort out outputs" and what follows: the payload for the outputs of the
\* method.
Respond(out) ==
    LET n == Len(out)
        errValid == n = 2 \/ (n = 1 /\ isError(out[1][1]))
        valValid == n = 2 \/ (n = 1 /\ ~isError(out[1][1]))
        outErr == IF n = 2 THEN out[2] ELSE out[1]
    IN  IF errValid /\ ~outErr[2].nil THEN jsonError(outErr[2].msg)
        ELSE IF valValid
        THEN LET r == Marshal(out[1])
             IN  IF r.err # NoErr
                 THEN jsonError("Error encoding result: " \o r.err)
                 ELSE r.text
        ELSE <<>>

Outcome(resp, panicked, invoked, store) ==
    [resp |-> resp, panicked |-> panicked, invoked |-> invoked, store |-> store]

\* func (fs funcs) call(funcName string, param string) string: the payload
\* returned (or the panic raised), the invocations made and the receiver's
\* field afterwards.
call(fs, funcName, param, store) ==
    IF ~Lookup(fs, funcName)
    THEN Outcome(jsonError("No such function '" \o funcName \o "'."),
                 FALSE, <<>>, store)
    ELSE LET m == fs.m[funcName]
             a == Prepare(m, funcName, param)
         IN  IF ~a.ok THEN Outcome(a.resp, FALSE, <<>>, store)
             ELSE LET r == Invoke(m, a.args, store)
                      inv == <<[name |-> m.name, args |-> a.args]>>
                  IN  IF r.panic THEN Outcome(<<>>, TRUE, inv, r.store)
                      ELSE Outcome(Respond(r.out), FALSE, inv, r.store)

(***************************************************************************)
(* The handler                                                             *)
(***************************************************************************)
\* A range over the map that may visit a key twice and leave another out.
RangeOrdersRepeating(keys) == [1..Cardinality(keys) -> keys]

\* The orders in which "for name := range f" may visit the keys of the map.
RangeOrders(keys) ==
    {s \in [1..Cardinality(keys) -> keys] :
        \A i, j \in 1..Cardinality(keys) : s[i] = s[j] => i = j}

\* The names appended to a slice made with make([]string, len(f)).
EncodeNamesPadded(names) ==
    <<LBrack>> \o EncodeElems([i \in 1..Len(names) |-> ""] \o names, 1)
    \o <<RBrack, <<"ws", "\n">>>>

\* json.NewEncoder(w).Encode(names): the array and a newline.
EncodeNames(names) ==
    <<LBrack>> \o EncodeElems(names, 1) \o <<RBrack, <<"ws", "\n">>>>

\* The payloads of the requests.
Payloads ==
    { <<>>,
      <<Space>>,
      <<Num(7)>>,
      <<Null>>,
      <<Str("x")>>,
      <<<<"frac", "1.5">>>>,
      <<LBrack, Str("x"), Comma, Str("y"), RBrack>>,
      <<LBrack, RBrack>>,
      <<LBrack, Num(7), RBrack>>,
      <<LBrace, Str("i"), Colon, Num(7), Comma, Str("s"), Colon, Str("aaa"),
        RBrace>>,
      <<LBrace, Str("i"), Colon, Num(7), Comma, Str("s"), Colon, Str("aaa"),
        LBrace>>,
      <<LBrace, Str("i"), Colon, Str("aaa"), RBrace>>,
      <<LBrace, Str("S"), Colon, Null, Comma, Str("t"), Colon,
        LBrack, LBrace, Str("i"), Colon, Num(7), RBrace, RBrack, RBrace>> }

\* The function names of the requests to a receiver: its methods' names, a
\* name no method has, and the reserved name.
RequestNames(r) == {Catalog[i].name : i \in r} \cup {"Nope", "funcs"}

VARIABLES
    receiver,   \* the object given to NewHandlerFunc
    store,      \* the receiver's field
    fs,         \* the funcs the handler closes over
    err,        \* the error of the construction
    handler,    \* "unbuilt", "installed" or "nil"
    last,       \* the last request served and its outcome
    g           \* the requests the goroutines are serving (SpecConc)

vars == <<receiver, store, fs, err, handler, last, g>>

NoRequest ==
    [via |-> "none", fn |-> "", param |-> <<>>, resp |-> <<>>,
     panicked |-> FALSE, invoked |-> <<>>, before |-> 0]

Idle ==
    [pc |-> "idle", fn |-> "", param |-> <<>>, m |-> Method("", <<>>, <<>>),
     args |-> <<>>, out |-> <<>>, resp |-> <<>>]

Init ==
    /\ receiver \in Receivers
    /\ store = 0
    /\ fs = NilFuncs
    /\ err = NoErr
    /\ handler = "unbuilt"
    /\ last = NoRequest
    /\ g = [i \in 1..MaxGoroutines |-> Idle]

\* func NewHandlerFunc(a interface{}) (http.HandlerFunc, error)
NewHandlerFunc ==
    /\ handler = "unbuilt"
    /\ LET r == newFuncs(receiver)
       IN  /\ fs' = r.funcs
           /\ err' = r.err
           /\ handler' = IF r.err # NoErr THEN "nil" ELSE "installed"
    /\ UNCHANGED <<receiver, store, last, g>>

\* A fresh, empty response buffer for the next request.
NewResponseWriter ==
    /\ last.via # "none"
    /\ last' = NoRequest
    /\ UNCHANGED <<receiver, store, fs, err, handler, g>>

\* f.call(funcName, param), called on the funcs directly.
Call ==
    /\ handler = "installed"
    /\ last.via = "none"
    /\ \E fn \in RequestNames(receiver), p \in Payloads :
          LET c == call(fs, fn, p, store)
          IN  /\ last' = [via |-> "call", fn |-> fn, param |-> p,
                          resp |-> c.resp, panicked |-> c.panicked,
                          invoked |-> c.invoked, before |-> store]
              /\ store' = c.store
    /\ UNCHANGED <<receiver, fs, err, handler, g>>

\* The handler function NewHandlerFunc returns, serving one request.
Handler ==
    /\ handler = "installed"
    /\ last.via = "none"
    /\ \E fn \in RequestNames(receiver), p \in Payloads :
          IF fn = "funcs"
          THEN \E names \in RangeOrders(DOMAIN fs.m) :
                  /\ last' = [via |-> "handler", fn |-> fn, param |-> p,
                              resp |-> EncodeNames(names), panicked |-> FALSE,
                              invoked |-> <<>>, before |-> store]
                  /\ store' = store
          ELSE LET c == call(fs, fn, p, store)
               IN  /\ last' = [via |-> "handler", fn |-> fn, param |-> p,
                               resp |-> c.resp, panicked |-> c.panicked,
                               invoked |-> c.invoked, before |-> store]
                   /\ store' = c.store
    /\ UNCHANGED <<receiver, fs, err, handler, g>>

Next == NewHandlerFunc \/ NewResponseWriter \/ Call \/ Handler

Spec == Init /\ [][Next]_vars

(***************************************************************************)
(* Requests served at the same time.  Each goroutine runs the handler for  *)
(* one request; its steps are the reads of the map, the decoding, the      *)
(* invocation and the encoding.                                            *)
(***************************************************************************)
\* The receivers of the concurrent requests: Bar, Foo and Fun, which share
\* no state.
ConcMethods == {i \in 1..Len(Catalog) : Catalog[i].name \in {"Bar", "Foo", "Fun"}}
ConcReceivers == SubsetsUpTo(ConcMethods, MaxMethods) \ {{}}

\* The payloads of the concurrent requests.
ConcPayloads == { <<>>, <<Null>> }

InitConc ==
    /\ receiver \in ConcReceivers
    /\ store = 0
    /\ fs = NilFuncs
    /\ err = NoErr
    /\ handler = "unbuilt"
    /\ last = NoRequest
    /\ g = [i \in 1..MaxGoroutines |-> Idle]

\* The server starts the handler for a request: funcName := r.FormValue("func").
Accept(i) ==
    /\ handler = "installed"
    /\ g[i].pc = "idle"
    /\ \E fn \in RequestNames(receiver), p \in ConcPayloads :
          g' = [g EXCEPT ![i] = [Idle EXCEPT !.pc = "accepted", !.fn = fn,
                                             !.param = p]]
    /\ UNCHANGED <<receiver, store, fs, err, handler, last>>

\* if funcName == "funcs": the names of the map, in the order of its range.
ListFuncs(i) ==
    /\ g[i].pc = "accepted"
    /\ g[i].fn = "funcs"
    /\ \E names \in RangeOrders(DOMAIN fs.m) :
          g' = [g EXCEPT ![i].pc = "done", ![i].resp = EncodeNames(names)]
    /\ UNCHANGED <<receiver, store, fs, err, handler, last>>

\* LookupStep with a map that remembers the names it does not have.
LookupStepCaching(i) ==
    /\ g[i].pc = "accepted"
    /\ g[i].fn # "funcs"
    /\ IF Lookup(fs, g[i].fn)
       THEN /\ g' = [g EXCEPT ![i].pc = "found", ![i].m = fs.m[g[i].fn]]
            /\ fs' = fs
       ELSE /\ g' = [g EXCEPT ![i].pc = "done",
                       ![i].resp = jsonError("No such function '" \o g[i].fn
                                             \o "'.")]
            /\ fs' = [fs EXCEPT !.m = (g[i].fn :> Idle.m) @@ @]
    /\ UNCHANGED <<receiver, store, err, handler, last>>

\* f, ok := fs[funcName] in call.
LookupStep(i) ==
    /\ g[i].pc = "accepted"
    /\ g[i].fn # "funcs"
    /\ IF Lookup(fs, g[i].fn)
       THEN g' = [g EXCEPT ![i].pc = "found", ![i].m = fs.m[g[i].fn]]
       ELSE g' = [g EXCEPT ![i].pc = "done",
                    ![i].resp = jsonError("No such function '" \o g[i].fn
                                          \o "'.")]
    /\ UNCHANGED <<receiver, store, fs, err, handler, last>>

\* The decoding of param, or the test that there is none.
PrepareStep(i) ==
    /\ g[i].pc = "found"
    /\ LET a == Prepare(g[i].m, g[i].fn, g[i].param)
       IN  IF a.ok
           THEN g' = [g EXCEPT ![i].pc = "ready", ![i].args = a.args]
           ELSE g' = [g EXCEPT ![i].pc = "done", ![i].resp = a.resp]
    /\ UNCHANGED <<receiver, store, fs, err, handler, last>>

\* out = f.Call(...)
InvokeStep(i) ==
    /\ g[i].pc = "ready"
    /\ LET r == Invoke(g[i].m, g[i].args, store)
       IN  /\ store' = r.store
           /\ IF r.panic
              THEN g' = [g EXCEPT ![i].pc = "panicked"]
              ELSE g' = [g EXCEPT ![i].pc = "returned", ![i].out = r.out]
    /\ UNCHANGED <<receiver, fs, err, handler, last>>

\* The outputs sorted out and encoded, and the payload written.
RespondStep(i) ==
    /\ g[i].pc = "returned"
    /\ g' = [g EXCEPT ![i].pc = "done", ![i].resp = Respond(g[i].out)]
    /\ UNCHANGED <<receiver, store, fs, err, handler, last>>

NextConc ==
    \/ NewHandlerFunc
    \/ \E i \in 1..MaxGoroutines :
          \/ Accept(i)
          \/ ListFuncs(i)
          \/ LookupStep(i)
          \/ PrepareStep(i)
          \/ InvokeStep(i)
          \/ RespondStep(i)

SpecConc == InitConc /\ [][NextConc]_vars

(***************************************************************************)
(* Properties of the construction                                          *)
(***************************************************************************)
\* The methods of the receiver.
Methods == {Catalog[i] : i \in receiver}
ExportedMethods == {m \in Methods : IsExported(m.name)}

\* The convention of the package documentation: at most 1 input; 0, 1 or 2
\* outputs, the second of two being an error.
Conforms(m) ==
    /\ Len(m.in) <= 1
    /\ Len(m.out) <= 2
    /\ Len(m.out) = 2 => m.out[2] = "error"

\* C1: when every exported method of the receiver satisfies the convention,
\* newFuncs succeeds and the keys of the registry are exactly the names of the
\* exported methods; the unexported methods are no keys and cause no error,
\* whatever their signature.
C1_RegistryIsExportedMethods ==
    (handler # "unbuilt" /\ \A m \in ExportedMethods : Conforms(m))
        => /\ err = NoErr
           /\ handler = "installed"
           /\ ~fs.isNil
           /\ DOMAIN fs.m = {m.name : m \in ExportedMethods}
           /\ \A m \in ExportedMethods : fs.m[m.name] = m

\* A receiver is built that has exported methods, one with a name that is not
\* ASCII, and an unexported method that breaks the convention.
C1_Witness ==
    /\ handler = "installed"
    /\ \E m \in Methods : ~IsExported(m.name) /\ ~Conforms(m)
    /\ \E m \in ExportedMethods : FirstRune[m.name] > 127
    /\ Cardinality(DOMAIN fs.m) >= 2

\* C2: when an exported method of the receiver breaks the convention, newFuncs
\* returns an error and the nil map, whatever other methods there are and
\* wherever the method stands in the table, and NewHandlerFunc returns no
\* handler.
C2_ViolationFailsConstruction ==
    (handler # "unbuilt" /\ \E m \in ExportedMethods : ~Conforms(m))
        => /\ err # NoErr
           /\ fs = NilFuncs
           /\ handler = "nil"

\* The construction failed on a receiver whose table has a conforming method
\* before the one that breaks the convention.
C2_Witness ==
    /\ handler = "nil"
    /\ \E i, j \in receiver :
          /\ i < j
          /\ IsExported(Catalog[i].name) /\ Conforms(Catalog[i])
          /\ IsExported(Catalog[j].name) /\ ~Conforms(Catalog[j])

(***************************************************************************)
(* Properties of call                                                      *)
(***************************************************************************)
\* The last request went through funcs.call (directly, or from the handler
\* for a name other than "funcs").
Called == last.via = "call" \/ (last.via = "handler" /\ last.fn # "funcs")

\* func isJsonError(s string) bool of the tests, on tokens: the payload is
\* the object {"error": "<message>"}.
isJsonError(resp) ==
    /\ Len(resp) = 5
    /\ resp[1] = LBrace
    /\ resp[2] = Str("error")
    /\ resp[3] = Colon
    /\ resp[4][1] = "str"
    /\ resp[5] = RBrace

ErrorPayload(msg) == <<LBrace, Str("error"), Colon, Str(msg), RBrace>>

\* C3: call with a name that is no key of the registry returns the payload
\* {"error":"No such function '<name>'."} and invokes no method.
C3_UnknownName ==
    (Called /\ last.fn \notin DOMAIN fs.m)
        => /\ last.resp = ErrorPayload("No such function '" \o last.fn \o "'.")
           /\ ~last.panicked
           /\ last.invoked = <<>>
           /\ store = last.before

\* call was given the name of a method of the receiver that is not
\* registered, on a registry that has entries.
C3_Witness ==
    /\ last.via = "call"
    /\ last.fn \in {m.name : m \in Methods} \ DOMAIN fs.m
    /\ DOMAIN fs.m # {}
    /\ last.param # <<>>

\* What the outputs of a method amount to: the message of a non-nil error,
\* else the encoding of the value, else nothing.
EncodedResult(out) ==
    LET errs == {i \in 1..Len(out) : out[i][1] = "error" /\ i = Len(out)}
        vals == {i \in 1..Len(out) : i \notin errs}
    IN  IF \E i \in errs : ~out[i][2].nil
        THEN ErrorPayload(out[CHOOSE i \in errs : TRUE][2].msg)
        ELSE IF vals # {}
        THEN LET r == Marshal(out[CHOOSE i \in vals : TRUE])
             IN  IF r.err = NoErr THEN r.text
                 ELSE ErrorPayload("Error encoding result: " \o r.err)
        ELSE <<>>

\* C4: for a registered method without inputs, call with a payload that is
\* not empty returns the payload {"error":"Function '<name>' does not accept
\* parameters."} and does not invoke the method; call with the empty payload
\* invokes the method exactly once and returns its encoded result.
C4_ZeroInputMethod ==
    (Called /\ last.fn \in DOMAIN fs.m /\ Len(fs.m[last.fn].in) = 0)
        => IF last.param # <<>>
           THEN /\ last.resp = ErrorPayload("Function '" \o last.fn
                                            \o "' does not accept parameters.")
                /\ last.invoked = <<>>
                /\ store = last.before
           ELSE /\ Len(last.invoked) = 1
                /\ last.invoked[1].name = last.fn
                /\ last.invoked[1].args = <<>>
                /\ ~last.panicked
                /\ last.resp =
                     EncodedResult(Invoke(fs.m[last.fn], <<>>, last.before).out)

\* Foo was called with the empty payload and has answered "Foo!".
C4_Witness ==
    /\ last.via = "call"
    /\ last.fn = "Foo"
    /\ last.param = <<>>
    /\ last.resp = <<Str("Foo!")>>
    /\ Len(last.invoked) = 1

\* C5: for a registered method with one input, when decoding the payload into
\* the type of the argument fails, call returns an error payload and does not
\* invoke the method; the receiver is as it was.
C5_DecodeFailure ==
    (/\ Called
     /\ last.fn \in DOMAIN fs.m
     /\ Len(fs.m[last.fn].in) = 1
     /\ Unmarshal(last.param, fs.m[last.fn].in[1]).err # NoErr)
        => /\ isJsonError(last.resp)
           /\ ~last.panicked
           /\ last.invoked = <<>>
           /\ store = last.before

\* Set was called with a string after the receiver's field had been set to 7.
C5_Witness ==
    /\ Called
    /\ last.fn = "Set"
    /\ last.param = <<Str("x")>>
    /\ last.before = 7
    /\ isJsonError(last.resp)

\* C6: for a registered method with outputs (value, error) that was invoked
\* and has returned: with a nil error call returns the JSON encoding of the
\* value (an error payload that names the encoding failure when the value has
\* none); with a non-nil error call returns the error payload with the
\* error's message, and the value is not in the response.
C6_ValueAndError ==
    (/\ Called
     /\ last.fn \in DOMAIN fs.m
     /\ Len(fs.m[last.fn].out) = 2
     /\ Len(last.invoked) = 1
     /\ ~last.panicked)
        => LET out == Invoke(fs.m[last.fn], last.invoked[1].args,
                             last.before).out
           IN  IF out[2][2].nil
               THEN IF Marshal(out[1]).err = NoErr
                    THEN last.resp = Marshal(out[1]).text
                    ELSE last.resp = ErrorPayload("Error encoding result: "
                                                  \o Marshal(out[1]).err)
               ELSE /\ last.resp = ErrorPayload(out[2][2].msg)
                    /\ \A k \in 1..Len(last.resp) :
                          \A j \in 1..Len(Marshal(out[1]).text) :
                             last.resp[k] # Marshal(out[1]).text[j]

\* Both was called: it returns the value "partial" and a non-nil error.
C6_Witness ==
    /\ Called
    /\ last.fn = "Both"
    /\ Len(last.invoked) = 1
    /\ last.resp = ErrorPayload("Both error")

\* C7: call raises no panic: it returns a payload for every registry, name
\* and payload, and every failure, one inside the invoked method included, is
\* the payload {"error": "<message>"}.
C7_CallNeverPanics ==
    Called => ~last.panicked

(***************************************************************************)
(* Properties of the request "funcs"                                       *)
(***************************************************************************)
\* C8: a request with func == "funcs" returns a JSON array whose elements are
\* the keys of the registry, each once and none left out, and neither looks
\* up nor invokes a method.
C8_FuncsListsKeys ==
    (last.via = "handler" /\ last.fn = "funcs")
        => LET r == ParseJSON(last.resp)
           IN  /\ r.err = NoErr
               /\ r.v[1] = "arr"
               /\ \A i \in 1..Len(r.v[2]) : r.v[2][i][1] = "str"
               /\ {r.v[2][i][2] : i \in 1..Len(r.v[2])} = DOMAIN fs.m
               /\ Len(r.v[2]) = Cardinality(DOMAIN fs.m)
               /\ last.invoked = <<>>
               /\ ~last.panicked
               /\ store = last.before

\* The names were asked of a handler with three registered methods, with a
\* payload that no method would accept.
C8_Witness ==
    /\ last.via = "handler"
    /\ last.fn = "funcs"
    /\ Cardinality(DOMAIN fs.m) >= 2
    /\ last.param = <<Space>>
    /\ Len(last.resp) >= 5

\* The names in the response of goroutine i to a "funcs" request.
ListedNames(i) ==
    LET elems == ParseJSON(g[i].resp).v[2]
    IN  [k \in 1..Len(elems) |-> elems[k][2]]

\* Goroutine i has answered a "funcs" request.
Listed(i) == g[i].pc = "done" /\ g[i].fn = "funcs"

\* C9 as claimed: any two "funcs" requests to the same handler return the
\* names in the same order, hence the same payload.
C9_FuncsOrderDeterministic ==
    \A i, j \in 1..MaxGoroutines :
        (Listed(i) /\ Listed(j)) => g[i].resp = g[j].resp

\* C9, amended: any two "funcs" requests to the same handler return the same
\* names, each once; the order of the names is the order of the range over
\* the map and may differ between the two.
C9_FuncsSameNames ==
    \A i, j \in 1..MaxGoroutines :
        (Listed(i) /\ Listed(j))
            => /\ Len(ListedNames(i)) = Len(ListedNames(j))
               /\ {ListedNames(i)[k] : k \in 1..Len(ListedNames(i))}
                    = {ListedNames(j)[k] : k \in 1..Len(ListedNames(j))}
               /\ \A k, l \in 1..Len(ListedNames(i)) :
                     ListedNames(i)[k] = ListedNames(i)[l] => k = l

\* Two "funcs" requests to one handler were answered with the names in
\* different orders.
C9_Witness ==
    /\ Listed(1)
    /\ Listed(2)
    /\ g[1].resp # g[2].resp
    /\ Len(ListedNames(1)) >= 2

(***************************************************************************)
(* Properties of concurrent requests                                       *)
(***************************************************************************)
\* What the requests that have ended returned is what call returns for them
\* when run alone; a "funcs" request has returned the keys of the registry.
AsWhenAlone ==
    \A i \in 1..MaxGoroutines :
        /\ (g[i].pc = "done" /\ g[i].fn # "funcs")
              => LET c == call(fs, g[i].fn, g[i].param, store)
                 IN  ~c.panicked /\ g[i].resp = c.resp
        /\ g[i].pc = "panicked"
              => call(fs, g[i].fn, g[i].param, store).panicked
        /\ Listed(i)
              => {ListedNames(i)[k] : k \in 1..Len(ListedNames(i))} = DOMAIN fs.m

\* C10: after the construction the registry stays what newFuncs made of the
\* receiver: no step of any request, whatever the interleaving, adds, removes
\* or rebinds an entry; and for a receiver whose methods share no state each
\* concurrent call returns the payload it returns when run alone.
C10_RegistryReadOnly ==
    /\ handler = "installed" => fs = newFuncs(receiver).funcs
    /\ handler = "unbuilt" => fs = NilFuncs
    /\ AsWhenAlone

\* A request for a name that is not registered has been answered while a
\* request for Bar was between its lookup and its answer.
C10_Witness ==
    /\ g[1].pc = "done"
    /\ g[1].fn = "Nope"
    /\ g[2].pc \in {"found", "ready", "returned"}
    /\ g[2].fn = "Bar"
    /\ DOMAIN fs.m = {"Bar", "Foo"}

(***************************************************************************)
(* Properties of methods with at most one output                           *)
(***************************************************************************)
\* The last request invoked the registered method it names, and the method
\* has returned.
Returned ==
    /\ Called
    /\ last.fn \in DOMAIN fs.m
    /\ Len(last.invoked) = 1
    /\ ~last.panicked

\* What the method of the last request returned.
LastOut == Invoke(fs.m[last.fn], last.invoked[1].args, last.before).out

\* C11: for a registered method with one output call goes by the type of
\* the output: a non-nil error gives the error payload with its message, a
\* nil error the empty payload, and an output of another type its JSON
\* encoding (the payload of the encoding failure when it has none); a method
\* without outputs gives the empty payload.
C11_SingleOutputByType ==
    (Returned /\ Len(fs.m[last.fn].out) <= 1)
        => IF Len(LastOut) = 0 THEN last.resp = <<>>
           ELSE IF fs.m[last.fn].out[1] = "error"
           THEN IF LastOut[1][2].nil THEN last.resp = <<>>
                ELSE last.resp = ErrorPayload(LastOut[1][2].msg)
           ELSE IF Marshal(LastOut[1]).err = NoErr
           THEN /\ last.resp = Marshal(LastOut[1]).text
                /\ ~isJsonError(last.resp)
           ELSE last.resp = ErrorPayload("Error encoding result: "
                                         \o Marshal(LastOut[1]).err)

\* Quit, whose one output is a non-nil error, was called and the error's
\* message came back.
C11_Witness ==
    /\ Returned
    /\ last.fn = "Quit"
    /\ fs.m["Quit"].out = <<"error">>
    /\ last.resp = ErrorPayload("Quit error")
    /\ DOMAIN fs.m = {"Get", "Ping", "Quit"}

(***************************************************************************)
(* Properties of the argument of a method                                  *)
(***************************************************************************)
\* The last request named a registered method that takes one argument of
\* the given type.
Takes(typ) ==
    /\ Called
    /\ last.fn \in DOMAIN fs.m
    /\ fs.m[last.fn].in = <<typ>>

\* The value the members of a JSON object give to a field of thing: that of
\* the last member that names the field and is not null, the zero value
\* when there is none.
Described(members, field, zero) ==
    LET named == { k \in 1..Len(members) :
                     FieldOf(members[k][1]) = field
                     /\ members[k][2][1] # "null" }
    IN  IF named = {} THEN zero
        ELSE members[CHOOSE k \in named : \A j \in named : j <= k][2][2]

\* C12: a payload that decodes without error into a pointer argument has
\* the method invoked with a pointer that is not nil, to a new thing whose
\* fields hold what the JSON object gives them.
C12_PointerArgumentNeverNil ==
    (Takes("*thing") /\ Unmarshal(last.param, "*thing").err = NoErr)
        => /\ Len(last.invoked) = 1
           /\ last.invoked[1].name = last.fn
           /\ LET th == last.invoked[1].args[1][2]
                  jv == ParseJSON(last.param).v
              IN  /\ ~th.nil
                  /\ jv[1] = "obj" => /\ th.I = Described(jv[2], "I", 0)
                                      /\ th.S = Described(jv[2], "S", "")

(***************************************************************************)
(* Properties of the empty payload                                         *)
(***************************************************************************)
\* The last request named a registered method and had the empty payload.
EmptyPayload ==
    /\ Called
    /\ last.fn \in DOMAIN fs.m
    /\ last.param = <<>>

\* The empty payload is accepted whatever the number of inputs: the method
\* of the request is invoked.
C13_EmptyPayloadAlwaysAccepted ==
    EmptyPayload
        => /\ Len(last.invoked) = 1
           /\ last.invoked[1].name = last.fn

\* C13: the empty payload is accepted by a method without inputs, which is
\* invoked without arguments; for a method with one input it does not
\* decode, and call returns the error payload of the decoding failure
\* without invoking the method.
C13_EmptyPayloadByArity ==
    EmptyPayload
        => IF Len(fs.m[last.fn].in) = 0
           THEN last.invoked = <<[name |-> last.fn, args |-> <<>>]>>
           ELSE /\ last.invoked = <<>>
                /\ ~last.panicked
                /\ isJsonError(last.resp)
                /\ last.resp = ErrorPayload("Error decoding JSON: "
                                            \o SyntaxEOF)

\* Bar, which takes an int, was called with the empty payload and answered
\* with the decoding failure.
C13_Witness ==
    /\ EmptyPayload
    /\ last.fn = "Bar"
    /\ fs.m["Bar"].in = <<"int">>
    /\ last.invoked = <<>>
    /\ isJsonError(last.resp)

====
